---- MODULE Spec2Model ----
(***************************************************************************)
(* Model of parseMETAR (src/app.js, lines 56-174): the METAR field parser. *)
(*                                                                         *)
(* JavaScript values are tagged records [type, value]; a string's value is *)
(* its sequence of one-character strings, so that String.split and the     *)
(* regular expressions are computed character by character.  The parser is *)
(* a straight-line function; pc is the position of the call in its body.   *)
(***************************************************************************)
EXTENDS Integers, Sequences, FiniteSets, TLC

VARIABLES data, splitData, result, time, wind, pc, ret, err

vars == <<data, splitData, result, time, wind, pc, ret, err>>

(***************************************************************************)
(* JavaScript values                                                       *)
(***************************************************************************)
Str(s) == [type |-> "string", value |-> s]

Undefined == [type |-> "undefined", value |-> <<>>]

JsNull == [type |-> "null", value |-> <<>>]

JsNumber == [type |-> "number", value |-> <<"4", "2">>]

JsBoolean == [type |-> "boolean", value |-> <<"1">>]

JsArray == [type |-> "array", value |-> <<"C", "Y", "T", "Z">>]

\* typeof v: null and arrays are reported as "object"
TypeOf(v) == IF v.type \in {"null", "array"} THEN "object" ELSE v.type

\* a falsy check, if (!data), in the place of the typeof check
IsNotStringFalsy(v) == v.type \in {"undefined", "null"}

\* line 59: typeof data !== 'string'
IsNotString(v) == TypeOf(v) # "string"

\* the string a RegExp method converts its argument to
RegExpString(v) ==
    IF v.type = "undefined" THEN <<"u", "n", "d", "e", "f", "i", "n", "e", "d">>
    ELSE v.value

NoError == [name |-> "none", message |-> ""]

InvalidStringError == [name |-> "Error", message |-> "ERROR: Invalid data; must be a string"]

InvalidLengthError == [name |-> "Error", message |-> "ERROR: Invalid data length"]

\* reading a property of undefined
UndefinedPropertyError == [name |-> "TypeError", message |-> "Cannot read properties of undefined (reading 'length')"]

EmptyObject == [k \in {} |-> Undefined]

HasKey(obj, k) == k \in DOMAIN obj

SetKey(obj, k, v) == (k :> v) @@ obj

(***************************************************************************)
(* Character classes of the regular expressions                            *)
(***************************************************************************)
Digits == {"0", "1", "2", "3", "4", "5", "6", "7", "8", "9"}

UpperLetters == {"A", "B", "C", "D", "E", "F", "G", "H", "I", "J", "K", "L", "M",
                 "N", "O", "P", "Q", "R", "S", "T", "U", "V", "W", "X", "Y", "Z"}

LowerLetters == {"a", "b", "c", "d", "e", "f", "g", "h", "i", "j", "k", "l", "m",
                 "n", "o", "p", "q", "r", "s", "t", "u", "v", "w", "x", "y", "z"}

\* \d
IsDigit(c) == c \in Digits

\* \w
IsWordChar(c) == c \in Digits \cup UpperLetters \cup LowerLetters \cup {"_"}

AllDigits(s) == \A i \in 1..Len(s) : IsDigit(s[i])

(***************************************************************************)
(* data.split(' ')                                                         *)
(***************************************************************************)
RECURSIVE Split(_)
Split(s) ==
    IF \A i \in 1..Len(s) : s[i] # " "
    THEN <<Str(s)>>
    ELSE LET i == CHOOSE j \in 1..Len(s) : s[j] = " " /\ \A k \in 1..(j - 1) : s[k] # " "
         IN  <<Str(SubSeq(s, 1, i - 1))>> \o Split(SubSeq(s, i + 1, Len(s)))

\* Array.prototype.join(' ') of an array of strings
RECURSIVE Join(_)
Join(ts) ==
    IF Len(ts) = 0 THEN <<>>
    ELSE IF Len(ts) = 1 THEN ts[1]
    ELSE ts[1] \o <<" ">> \o Join(Tail(ts))

\* Array.prototype.pop in the place of shift: the last element is removed
ShiftPop(q) ==
    IF Len(q) = 0
    THEN [value |-> Undefined, rest |-> q]
    ELSE [value |-> q[Len(q)], rest |-> SubSeq(q, 1, Len(q) - 1)]

\* Array.prototype.shift: the removed front element (undefined on an empty
\* array) and the array that remains
Shift(q) ==
    IF Len(q) = 0
    THEN [value |-> Undefined, rest |-> q]
    ELSE [value |-> Head(q), rest |-> Tail(q)]

(***************************************************************************)
(* The regular expressions                                                 *)
(***************************************************************************)
\* the alternation without its closing anchor: /^(a|b)/
AnchoredAlternationNoEnd(s, literals) ==
    \E lit \in literals :
        /\ Len(s) >= Len(lit)
        /\ SubSeq(s, 1, Len(lit)) = lit

\* an anchored alternation of literals: /^(a|b)$/
AnchoredAlternation(s, literals) ==
    \E lit \in literals :
        /\ Len(s) >= Len(lit)
        /\ SubSeq(s, 1, Len(lit)) = lit
        /\ Len(s) = Len(lit)

\* /^(?<reportType>METAR|SPECI)$/.test(v)
ReportTypeRegexTest(v) ==
    AnchoredAlternation(RegExpString(v), {<<"M", "E", "T", "A", "R">>, <<"S", "P", "E", "C", "I">>})

\* /^(?<modifier>AUTO|COR)$/.test(v)
ModifierRegexTest(v) ==
    AnchoredAlternation(RegExpString(v), {<<"A", "U", "T", "O">>, <<"C", "O", "R">>})

\* /^(?<dayOfMonth>\d{2})(?<hours>\d\d)(?<mins>\d\d)(?<timezone>[Z])$/.test(v)
TimeRegexTest(v) ==
    LET s == RegExpString(v)
    IN  /\ Len(s) = 7
        /\ AllDigits(SubSeq(s, 1, 6))
        /\ s[7] = "Z"

\* timeRegex.exec(v).groups of a matching v
TimeRegexGroups(v) ==
    LET s == RegExpString(v)
    IN  [dayOfMonth |-> Str(SubSeq(s, 1, 2)),
         hours      |-> Str(SubSeq(s, 3, 4)),
         mins       |-> Str(SubSeq(s, 5, 6)),
         timezone   |-> Str(SubSeq(s, 7, 7))]

\* the direction group: (VBR|\d{3})
WindDirectionMatch(d) == d = <<"V", "B", "R">> \/ (Len(d) = 3 /\ AllDigits(d))

\* length of the optional gust group (G\d\d)? in a matching string: 0 or 3
WindGustLen(s) == IF Len(s) = 10 THEN 3 ELSE 0

\* /^(?<direction>VBR|\d{3})(?<speed>\d\d)(G(?<gustingSpeed>\d\d))?(?<speedUnits>\w\w)$/.test(v)
WindRegexTest(v) ==
    LET s == RegExpString(v)
    IN  \E g \in {0, 3} :
            /\ Len(s) = 7 + g
            /\ WindDirectionMatch(SubSeq(s, 1, 3))
            /\ AllDigits(SubSeq(s, 4, 5))
            /\ g = 3 => (s[6] = "G" /\ AllDigits(SubSeq(s, 7, 8)))
            /\ IsWordChar(s[6 + g]) /\ IsWordChar(s[7 + g])

\* windRegex.exec(v).groups of a matching v
WindRegexGroups(v) ==
    LET s == RegExpString(v)
        g == WindGustLen(s)
    IN  [direction    |-> Str(SubSeq(s, 1, 3)),
         speed        |-> Str(SubSeq(s, 4, 5)),
         gustingSpeed |-> IF g = 3 THEN Str(SubSeq(s, 7, 8)) ELSE Undefined,
         speedUnits   |-> Str(SubSeq(s, 6 + g, 7 + g))]

(***************************************************************************)
(* The field steps of parseMETAR, each on the token queue q and record r   *)
(***************************************************************************)
\* lines 71-75: optional report type
ReportTypeStep(q, r) ==
    LET hasReportType == Len(q) > 0 /\ ReportTypeRegexTest(q[1])
    IN  IF hasReportType
        THEN [splitData |-> Shift(q).rest, result |-> SetKey(r, "reportType", Shift(q).value)]
        ELSE [splitData |-> q, result |-> r]

\* line 78: station ID, shifted unconditionally
StationStep(q, r) ==
    [splitData |-> Shift(q).rest, result |-> SetKey(r, "ICAO", Shift(q).value)]

\* the date/time token left on the queue when it does not match
TimeStepKeepOnMismatch(q, r) ==
    LET t == IF Len(q) = 0 THEN Undefined ELSE q[1]
    IN  IF TimeRegexTest(t)
        THEN [splitData |-> Shift(q).rest, time |-> t,
              result |-> SetKey(r, "timestamp", TimeRegexGroups(t))]
        ELSE [splitData |-> q, time |-> t, result |-> r]

\* lines 94-98: date/time, shifted unconditionally, recorded on a match
TimeStep(q, r) ==
    LET t == Shift(q).value
    IN  [splitData |-> Shift(q).rest,
         time      |-> t,
         result    |-> IF TimeRegexTest(t) THEN SetKey(r, "timestamp", TimeRegexGroups(t)) ELSE r]

\* lines 106-110: optional modifier
ModifierStep(q, r) ==
    LET hasModifier == Len(q) > 0 /\ ModifierRegexTest(q[1])
    IN  IF hasModifier
        THEN [splitData |-> Shift(q).rest, result |-> SetKey(r, "modifier", Shift(q).value)]
        ELSE [splitData |-> q, result |-> r]

\* a guarded read, wind && wind.length, never throws
WindLengthNeverThrows(w) == FALSE

\* line 126: wind.length is read before the pattern is tried; undefined has
\* no properties
WindLengthThrows(w) == w.type = "undefined"

\* lines 124-129: wind, shifted unconditionally, recorded on a match
WindStep(q, r) ==
    LET w == Shift(q).value
        hasWind == Len(w.value) > 0 /\ WindRegexTest(w)
    IN  [splitData |-> Shift(q).rest,
         wind      |-> w,
         threw     |-> WindLengthThrows(w),
         result    |-> IF ~WindLengthThrows(w) /\ hasWind
                       THEN SetKey(r, "wind", WindRegexGroups(w))
                       ELSE r]

\* the raw string rebuilt from the non-empty tokens
ReturnValueRejoined(d, r) ==
    LET ts == SelectSeq(Split(d.value), LAMBDA t : Len(t.value) > 0)
    IN  [METAR |-> Str(Join([i \in 1..Len(ts) |-> ts[i].value])), parsedMETAR |-> r]

\* lines 170-173: the returned object
ReturnValue(d, r) == [METAR |-> d, parsedMETAR |-> r]

\* lines 71-129: the field steps in order, on a fresh record
FieldSteps(q) ==
    LET s1 == ReportTypeStep(q, EmptyObject)
        s2 == StationStep(s1.splitData, s1.result)
        s3 == TimeStep(s2.splitData, s2.result)
        s4 == ModifierStep(s3.splitData, s3.result)
    IN  WindStep(s4.splitData, s4.result)

(***************************************************************************)
(* Inputs                                                                  *)
(***************************************************************************)
MaxTokens == 4

MaxLongTokens == 6

MaxOptionalTokens == 4

EmptyToken == <<>>

TokMETAR == <<"M", "E", "T", "A", "R">>

TokMETARS == <<"M", "E", "T", "A", "R", "S">>

TokSPECI == <<"S", "P", "E", "C", "I">>

TokAUTO == <<"A", "U", "T", "O">>

TokCOR == <<"C", "O", "R">>

TokCYTZ == <<"C", "Y", "T", "Z">>

Tok051900Z == <<"0", "5", "1", "9", "0", "0", "Z">>

TokBADTIME == <<"B", "A", "D", "T", "I", "M", "E">>

Tok17011KT == <<"1", "7", "0", "1", "1", "K", "T">>

Tok17011G20KT == <<"1", "7", "0", "1", "1", "G", "2", "0", "K", "T">>

TokVRB05KT == <<"V", "R", "B", "0", "5", "K", "T">>

Tok1701122 == <<"1", "7", "0", "1", "1", "2", "2">>

\* tokens of short reports: every field in a matching and a mismatching form
Vocab ==
    {EmptyToken, TokMETAR, TokAUTO, TokCYTZ, Tok051900Z, TokBADTIME, Tok17011KT,
     Tok17011G20KT, TokVRB05KT, Tok1701122}

\* tokens of the optional fields: every literal and a near miss
OptionalVocab ==
    {TokMETAR, TokMETARS, TokSPECI, TokAUTO, TokCOR, TokCYTZ, Tok051900Z, Tok17011G20KT}

\* tokens of long reports: one matching form of every field
LongVocab == {TokMETAR, TokCYTZ, Tok051900Z, TokAUTO, Tok17011KT}

TokenLists(vocab, n) == UNION {[1..k -> vocab] : k \in 1..n}

NonStrings == {Undefined, JsNull, JsNumber, JsBoolean, JsArray}

Inputs == NonStrings \cup {Str(Join(ts)) : ts \in TokenLists(Vocab, MaxTokens)}

OptionalInputs ==
    NonStrings \cup {Str(Join(ts)) : ts \in TokenLists(OptionalVocab, MaxOptionalTokens)}

LongInputs == NonStrings \cup {Str(Join(ts)) : ts \in TokenLists(LongVocab, MaxLongTokens)}

(***************************************************************************)
(* The state machine                                                       *)
(***************************************************************************)
TypeOK ==
    /\ pc \in {"start", "split", "reportType", "station", "time", "modifier",
               "wind", "return", "done", "thrown"}
    /\ err \in {NoError, InvalidStringError, InvalidLengthError, UndefinedPropertyError}

InitWith(inputs) ==
    /\ data \in inputs
    /\ splitData = <<>>
    /\ result = Undefined
    /\ time = Undefined
    /\ wind = Undefined
    /\ ret = Undefined
    /\ err = NoError
    /\ pc = "start"

Init == InitWith(Inputs)

InitOptional == InitWith(OptionalInputs)

InitLong == InitWith(LongInputs)

\* lines 59-61
CheckType ==
    /\ pc = "start"
    /\ IF IsNotString(data)
       THEN pc' = "thrown" /\ err' = InvalidStringError
       ELSE pc' = "split" /\ err' = err
    /\ UNCHANGED <<data, splitData, result, time, wind, ret>>

\* lines 63-67
SplitData ==
    /\ pc = "split"
    /\ result' = EmptyObject
    /\ splitData' = Split(data.value)
    /\ IF Len(splitData') = 0
       THEN pc' = "thrown" /\ err' = InvalidLengthError
       ELSE pc' = "reportType" /\ err' = err
    /\ UNCHANGED <<data, time, wind, ret>>

ReportType ==
    /\ pc = "reportType"
    /\ splitData' = ReportTypeStep(splitData, result).splitData
    /\ result' = ReportTypeStep(splitData, result).result
    /\ pc' = "station"
    /\ UNCHANGED <<data, time, wind, ret, err>>

Station ==
    /\ pc = "station"
    /\ splitData' = StationStep(splitData, result).splitData
    /\ result' = StationStep(splitData, result).result
    /\ pc' = "time"
    /\ UNCHANGED <<data, time, wind, ret, err>>

Time ==
    /\ pc = "time"
    /\ splitData' = TimeStep(splitData, result).splitData
    /\ time' = TimeStep(splitData, result).time
    /\ result' = TimeStep(splitData, result).result
    /\ pc' = "modifier"
    /\ UNCHANGED <<data, wind, ret, err>>

Modifier ==
    /\ pc = "modifier"
    /\ splitData' = ModifierStep(splitData, result).splitData
    /\ result' = ModifierStep(splitData, result).result
    /\ pc' = "wind"
    /\ UNCHANGED <<data, time, wind, ret, err>>

Wind ==
    /\ pc = "wind"
    /\ splitData' = WindStep(splitData, result).splitData
    /\ wind' = WindStep(splitData, result).wind
    /\ result' = WindStep(splitData, result).result
    /\ IF WindStep(splitData, result).threw
       THEN pc' = "thrown" /\ err' = UndefinedPropertyError
       ELSE pc' = "return" /\ err' = err
    /\ UNCHANGED <<data, time, ret>>

Return ==
    /\ pc = "return"
    /\ ret' = ReturnValue(data, result)
    /\ pc' = "done"
    /\ UNCHANGED <<data, splitData, result, time, wind, err>>

Next ==
    \/ CheckType
    \/ SplitData
    \/ ReportType
    \/ Station
    \/ Time
    \/ Modifier
    \/ Wind
    \/ Return

Spec == Init /\ [][Next]_vars

SpecOptional == InitOptional /\ [][Next]_vars

SpecLong == InitLong /\ [][Next]_vars

(***************************************************************************)
(* Vocabulary of the claims, stated independently of the parser            *)
(***************************************************************************)
IsLetter(c) == c \in UpperLetters \cup LowerLetters

\* the tokens of the input string
Tokens == Split(data.value)

\* the number of tokens removed from the queue so far
Consumed == Len(Tokens) - Len(splitData)

\* the error the parser itself raises for invalid data
IsInvalidInputError(e) == e.name = "Error"

\* the empty string or a string of spaces only
IsBlank(v) == v.type = "string" /\ \A i \in 1..Len(v.value) : v.value[i] = " "

ReportTypeLiterals == {Str(TokMETAR), Str(TokSPECI)}

ModifierLiterals == {Str(TokAUTO), Str(TokCOR)}

\* DDHHMMZ: six digits and a literal Z
IsDDHHMMZ(v) ==
    /\ v.type = "string"
    /\ Len(v.value) = 7
    /\ \A i \in 1..6 : v.value[i] \in Digits
    /\ v.value[7] = "Z"

\* VRB, a 2-digit speed, an optional G and 2-digit gust, a 2-letter unit
IsVariableWindToken(v) ==
    /\ v.type = "string"
    /\ Len(v.value) \in {7, 10}
    /\ SubSeq(v.value, 1, 3) = <<"V", "R", "B">>
    /\ \A i \in 4..5 : v.value[i] \in Digits
    /\ Len(v.value) = 10 => (v.value[6] = "G" /\ \A i \in 7..8 : v.value[i] \in Digits)
    /\ \A i \in (Len(v.value) - 1)..Len(v.value) : IsLetter(v.value[i])

\* the parse has returned
Returned == pc = "done"

(***************************************************************************)
(* Claims                                                                  *)
(***************************************************************************)
\* C1: for an empty or all-spaces input string the parse never returns a
\* result and fails only with the parser's own invalid-data error, raised
\* by the length check.
C1_BlankInputFailsInvalidInput ==
    IsBlank(data) =>
        /\ ~Returned
        /\ pc = "thrown" => err = InvalidLengthError

\* C2: once the input is a string with a non-empty token list, the parse
\* never fails, whatever the tokens and however few they are.
C2_NoFailureAfterInitialChecks ==
    (data.type = "string" /\ Len(Tokens) > 0) => pc # "thrown"

\* C3: for a non-string input the parse fails with the invalid-data error
\* before any tokenizing or field step: no queue, no record, no result.
C3_NonStringFailsBeforeTokenizing ==
    (data.type # "string" /\ pc # "start") =>
        /\ pc = "thrown"
        /\ IsInvalidInputError(err)
        /\ err = InvalidStringError
        /\ splitData = <<>>
        /\ result = Undefined
        /\ time = Undefined
        /\ wind = Undefined
        /\ ret = Undefined

C3_Witness == pc = "thrown" /\ data = JsNumber /\ err = InvalidStringError

\* C4: a wind-position token VRB + 2-digit speed + optional gust + 2-letter
\* unit matches the wind pattern: the returned record has a wind key whose
\* direction is "VRB".
C4_VariableWindRecorded ==
    (Returned /\ IsVariableWindToken(wind)) =>
        /\ HasKey(ret.parsedMETAR, "wind")
        /\ ret.parsedMETAR.wind.direction = Str(<<"V", "R", "B">>)

\* C5: whenever a date/time token exists, the date/time step removes exactly
\* that one token from the front of the queue, whether or not it matches
\* DDHHMMZ; the timestamp key is present iff it matches; and the modifier
\* step examines the token that followed it.
C5_TimeStepConsumesOneToken ==
    LET off == IF HasKey(result, "reportType") THEN 1 ELSE 0
        k   == off + 2
    IN  (pc \in {"modifier", "wind", "return", "done"} /\ Len(Tokens) >= k) =>
            /\ time = Tokens[k]
            /\ HasKey(result, "timestamp") <=> IsDDHHMMZ(Tokens[k])
            /\ HasKey(result, "timestamp") => result.timestamp.timezone = Str(<<"Z">>)
            /\ pc = "modifier" => splitData = SubSeq(Tokens, k + 1, Len(Tokens))
            /\ pc # "modifier" =>
                   (HasKey(result, "modifier") <=>
                        (Len(Tokens) > k /\ Tokens[k + 1] \in ModifierLiterals))
            /\ (pc # "modifier" /\ HasKey(result, "modifier")) =>
                   result.modifier = Tokens[k + 1]

C5_Witness ==
    /\ Returned
    /\ data = Str(Join(<<TokCYTZ, TokBADTIME, TokAUTO, Tok17011KT>>))
    /\ ~HasKey(ret.parsedMETAR, "timestamp")
    /\ ret.parsedMETAR.modifier = Str(TokAUTO)

\* the effect of an optional field step on the queue and the record
OptionalStepEffect(key, literals) ==
    IF Len(splitData) > 0 /\ Head(splitData) \in literals
    THEN /\ splitData' = Tail(splitData)
         /\ HasKey(result', key)
         /\ result'[key] = Head(splitData)
    ELSE /\ splitData' = splitData
         /\ ~HasKey(result', key)

\* C6: an optional field step (report type, modifier) removes the front
\* token and stores it under the field's key iff it exactly equals one of
\* the field's literals; otherwise the queue is unchanged and the key is
\* absent, so the next mandatory step consumes that same front token.
C6_OptionalStepFrame ==
    [][/\ pc = "reportType" => OptionalStepEffect("reportType", ReportTypeLiterals)
       /\ pc = "modifier" => OptionalStepEffect("modifier", ModifierLiterals)
       /\ (pc = "station" /\ Len(splitData) > 0) => result'.ICAO = Head(splitData)
       /\ (pc = "wind" /\ Len(splitData) > 0) => wind' = Head(splitData)]_vars

C6_Witness ==
    /\ Returned
    /\ ~HasKey(ret.parsedMETAR, "reportType")
    /\ ret.parsedMETAR.ICAO = Str(TokMETARS)
    /\ HasKey(ret.parsedMETAR, "modifier")
    /\ ret.parsedMETAR.modifier = Str(TokCOR)

\* C7: the raw string of every returned result is the input string,
\* character for character.
C7_RawStringVerbatim == Returned => ret.METAR = data

C7_Witness ==
    /\ Returned
    /\ ret.METAR = data
    /\ \E i \in 1..Len(Tokens) : Tokens[i] = Str(EmptyToken)
    /\ ~HasKey(ret.parsedMETAR, "wind")
    /\ Len(splitData) > 0

\* C8: the speedUnits of a wind key in a returned record is two letters.
C8_SpeedUnitsAreLetters ==
    (Returned /\ HasKey(ret.parsedMETAR, "wind")) =>
        LET u == ret.parsedMETAR.wind.speedUnits.value
        IN  Len(u) = 2 /\ IsLetter(u[1]) /\ IsLetter(u[2])

\* C9: a parse that returns has removed between 3 and 5 tokens from the
\* front of the queue (station, time, wind, one more for a matched report
\* type and for a matched modifier), and the record is the record of every
\* input that agrees with this one up to the wind-position token.
C9_StopsAfterWind ==
    Returned =>
        LET optional == (IF HasKey(result, "reportType") THEN 1 ELSE 0)
                            + (IF HasKey(result, "modifier") THEN 1 ELSE 0)
            prefix   == SubSeq(Tokens, 1, Consumed)
        IN  /\ Consumed \in 3..5
            /\ Consumed = 3 + optional
            /\ splitData = SubSeq(Tokens, Consumed + 1, Len(Tokens))
            /\ wind = Tokens[Consumed]
            /\ \A tail \in {<<>>} \cup {<<Str(t)>> : t \in LongVocab} :
                   /\ ~FieldSteps(prefix \o tail).threw
                   /\ FieldSteps(prefix \o tail).result = ret.parsedMETAR

C9_Witness ==
    /\ Returned
    /\ Consumed = 5
    /\ Len(splitData) > 0
    /\ HasKey(ret.parsedMETAR, "wind")

\* C10: every returned record has the ICAO key, holding a string token of
\* the input; a run whose queue was empty at the station step (ICAO
\* undefined) never reaches the return.
C10_ICAOIsInputToken ==
    /\ Returned =>
           /\ HasKey(ret.parsedMETAR, "ICAO")
           /\ ret.parsedMETAR.ICAO.type = "string"
           /\ \E i \in 1..2 : i <= Len(Tokens) /\ Tokens[i] = ret.parsedMETAR.ICAO
    /\ (pc \in {"time", "modifier", "wind", "return", "done"} /\ result.ICAO = Undefined) =>
           pc \notin {"return", "done"}

C10_Witness ==
    /\ Returned
    /\ HasKey(ret.parsedMETAR, "reportType")
    /\ ret.parsedMETAR.ICAO = Str(TokCYTZ)

====
